---- MODULE Spec2Model ----
(***************************************************************************)
(* A model of the ImageLoader class of src/imageLoader.js: the counter and *)
(* callback bookkeeping around the browser's per-image load/error events.  *)
(* Every handler runs to completion (JavaScript is single threaded), so    *)
(* each method and each event handler is one atomic action.                *)
(***************************************************************************)
EXTENDS Integers, Sequences, FiniteSets, TLC

\* ------------------------------------------------------------------------
\* Bounds of the model
\* ------------------------------------------------------------------------
MaxInit == 2          \* longest images array given to the constructor
MaxAddLen == 2        \* longest array given to one addImages call
MaxAdds == 2          \* addImages calls per run
MaxPreloads == 2      \* preloadAll calls per run
MaxHandles == 2       \* Image objects created per run
LargeTotal == 200     \* number of images in the large-array runs

URLs == {"a.jpg", "b.jpg"}
LargeURL == "a.jpg"

\* ------------------------------------------------------------------------
\* IEEE-754 double arithmetic, as far as Math.round((l / t) * 100) needs it.
\* A double is a record [m, e]: m is its 53-bit significand, most
\* significant bit first, and e is the binary weight of m[1].
\* ------------------------------------------------------------------------
Mant == 53

RECURSIVE Pow2(_)
Pow2(k) == IF k = 0 THEN 1 ELSE 2 * Pow2(k - 1)

\* 2^k modulo t, by repeated squaring
RECURSIVE Pow2Mod(_, _)
Pow2Mod(k, t) ==
    IF k = 0 THEN 1 % t
    ELSE IF k % 2 = 1 THEN (2 * Pow2Mod(k - 1, t)) % t
    ELSE (Pow2Mod(k \div 2, t) * Pow2Mod(k \div 2, t)) % t

\* the number of binary digits of n (0 <= n < 2^30)
BitLen(n) == CHOOSE k \in 0..30 : n < Pow2(k) /\ (k = 0 \/ Pow2(k - 1) <= n)

\* the w low binary digits of n, most significant first
FixedBits(n, w) == [i \in 1..w |-> (n \div Pow2(w - i)) % 2]

\* the binary digits of n, most significant first, without leading zeros
NatBits(n) == FixedBits(n, BitLen(n))

\* the natural number a bit string (most significant first) denotes
RECURSIVE BitsNat(_)
BitsNat(b) ==
    IF Len(b) = 0 THEN 0
    ELSE IF Len(b) = 1 THEN b[1]
    ELSE LET h == Len(b) \div 2
         IN  BitsNat(SubSeq(b, 1, h)) * Pow2(Len(b) - h)
               + BitsNat(SubSeq(b, h + 1, Len(b)))

\* the first n bits of the binary expansion of r / t (0 <= r < t): bit i is
\* decided by the remainder (r * 2^(i-1)) mod t
FracBits(r, t, n) ==
    [i \in 1..n |-> IF 2 * ((r * Pow2Mod(i - 1, t)) % t) >= t THEN 1 ELSE 0]

\* the remainder left after n bits of the expansion of r / t
FracRem(r, t, n) == (r * Pow2Mod(n, t)) % t

\* the number of leading zero bits of the binary expansion of r / t (0 < r < t)
LeadingZeros(r, t) ==
    CHOOSE z \in 0..30 : Pow2(z + 1) * r >= t /\ (z = 0 \/ Pow2(z) * r < t)

\* the Mant-bit string m plus one; Mant + 1 bits long when m is all ones
Increment(m) ==
    IF \A i \in 1..Len(m) : m[i] = 1
    THEN <<1>> \o [i \in 1..Len(m) |-> 0]
    ELSE LET k == CHOOSE j \in 1..Len(m) :
                      m[j] = 0 /\ \A i \in (j + 1)..Len(m) : m[i] = 1
         IN  [i \in 1..Len(m) |-> IF i < k THEN m[i] ELSE IF i = k THEN 1 ELSE 0]

\* round-to-nearest, ties-to-even, of the bit string b (most significant bit
\* first, weight of b[1] is 2^e, at least Mant + 1 bits long) followed by a
\* sticky flag for the bits beyond b
RoundNearestEven(b, e, sticky) ==
    LET m == SubSeq(b, 1, Mant)
        guard == b[Mant + 1]
        tail == \E i \in (Mant + 2)..Len(b) : b[i] = 1
        up == guard = 1 /\ (sticky \/ tail \/ m[Mant] = 1)
        inc == Increment(m)
    IN  IF ~up THEN [m |-> m, e |-> e]
        ELSE IF Len(inc) > Mant THEN [m |-> SubSeq(inc, 1, Mant), e |-> e + 1]
        ELSE [m |-> inc, e |-> e]

\* the double nearest to l / t, for integers l > 0 and t > 0
DoubleDiv(l, t) ==
    LET int == NatBits(l \div t)
        r == l % t
        z == IF int = <<>> /\ r # 0 THEN LeadingZeros(r, t) ELSE 0
        r0 == IF int = <<>> THEN r * Pow2(z) ELSE r
        n == Mant + 1 - Len(int)
        e == IF int = <<>> THEN -(z + 1) ELSE Len(int) - 1
    IN  RoundNearestEven(int \o FracBits(r0, t, n), e, FracRem(r0, t, n) # 0)

\* the double nearest to x * 100: the significand is multiplied limb by limb
DoubleTimes100(x) ==
    LET Limb == 20
        l2 == BitsNat(SubSeq(x.m, 1, Mant - 2 * Limb))
        l1 == BitsNat(SubSeq(x.m, Mant - 2 * Limb + 1, Mant - Limb))
        l0 == BitsNat(SubSeq(x.m, Mant - Limb + 1, Mant))
        c0 == l0 * 100
        c1 == l1 * 100 + c0 \div Pow2(Limb)
        c2 == l2 * 100 + c1 \div Pow2(Limb)
        b == NatBits(c2) \o FixedBits(c1 % Pow2(Limb), Limb)
                         \o FixedBits(c0 % Pow2(Limb), Limb)
    IN  RoundNearestEven(b, x.e + (Len(b) - Mant), FALSE)

\* Math.round of a positive double: the nearest integer, halves upwards
MathRound(x) ==
    IF x.e < -1 THEN 0
    ELSE IF x.e = -1 THEN 1
    ELSE BitsNat(SubSeq(x.m, 1, x.e + 1)) + x.m[x.e + 2]

\* Math.round((l / t) * 100) for integers l >= 0 and t > 0
RoundedPercent(l, t) ==
    IF l = 0 THEN 0 ELSE MathRound(DoubleTimes100(DoubleDiv(l, t)))


\* the values of RoundedPercent the runs below can ask for, computed once
PercentDomain ==
    ((0..MaxHandles) \X (1..(MaxInit + MaxAdds * MaxAddLen)))
        \cup ((0..LargeTotal) \X {LargeTotal})

PercentTable == {<<p, RoundedPercent(p[1], p[2])>> : p \in PercentDomain}

\* ------------------------------------------------------------------------
\* State
\* ------------------------------------------------------------------------
VARIABLES
    images,          \* this.images: the URLs given so far
    loadedImages,    \* this.loadedImages
    totalImages,     \* this.totalImages
    imageElements,   \* this.imageElements: index -> Image object
    imageCache,      \* this.imageCache: <<[url, img], ...>> in key order
    handles,         \* every Image object created, with its event state
    calls,           \* the callbacks the last operation invoked, in order
    ret,             \* what the last operation returned
    completeCount,   \* how often onComplete has been invoked
    lastProgress,    \* the last value passed to onProgress, -1 before any
    preloadCalls,    \* how often preloadAll has been called
    addCalls         \* how often addImages has been called

vars == <<images, loadedImages, totalImages, imageElements, imageCache,
          handles, calls, ret, completeCount, lastProgress, preloadCalls,
          addCalls>>

\* JavaScript values: null, undefined, a string, a reference to Image object h
Null == [type |-> "null"]
Undefined == [type |-> "undefined"]
String(s) == [type |-> "string", val |-> s]
ImageRef(h) == [type |-> "Image", id |-> h]
NoRet == [op |-> "none", val |-> Undefined]

OnProgress(percentage) == [cb |-> "onProgress", args |-> <<percentage>>]
OnComplete(cache) == [cb |-> "onComplete", args |-> <<cache>>]
OnError(src, index) == [cb |-> "onError", args |-> <<src, index>>]

\* ------------------------------------------------------------------------
\* The imageCache object: string keys, enumerated in insertion order. The
\* keys are image URLs, none of which names a member of Object.prototype.
\* ------------------------------------------------------------------------
ObjectKeys(cache) == [i \in 1..Len(cache) |-> cache[i].url]

CacheGet(cache, src) ==
    IF \E i \in 1..Len(cache) : cache[i].url = src
    THEN (CHOOSE e \in {cache[i] : i \in 1..Len(cache)} : e.url = src).img
    ELSE Undefined

CachePut(cache, src, img) ==
    IF \E i \in 1..Len(cache) : cache[i].url = src
    THEN [i \in 1..Len(cache) |->
            IF cache[i].url = src THEN [url |-> src, img |-> img] ELSE cache[i]]
    ELSE Append(cache, [url |-> src, img |-> img])

\* an index drawn one past the end of the array
RandomIndexInclusive(n) == 0..n

\* Math.floor(Math.random() * n): any index of an n-element array
RandomIndex(n) == 0..(n - 1)

\* Math.round((loaded / total) * 100)
Percent(loaded, total) ==
    (CHOOSE e \in PercentTable : e[1] = <<loaded, total>>)[2]


\* ------------------------------------------------------------------------
\* Operations of ImageLoader
\* ------------------------------------------------------------------------

\* preloadImage: the Image object made for src, waiting for its event
preloadImage(src, index) == [src |-> src, index |-> index, state |-> "pending"]

\* srcs.forEach((src, i) => this.preloadImage(src, startIndex + i))
preloadEach(srcs, startIndex) ==
    LET new == startIndex..(startIndex + Len(srcs) - 1)
    IN  /\ handles' = handles \o
              [i \in 1..Len(srcs) |-> preloadImage(srcs[i], startIndex + i - 1)]
        /\ imageElements' =
              [k \in (DOMAIN imageElements) \cup new |->
                  IF k \in new THEN Len(handles) + (k - startIndex) + 1
                  ELSE imageElements[k]]

\* completion reported on every event up to the total
reportProgressEager(loaded, total, cache) ==
    <<OnProgress(Percent(loaded, total))>>
        \o (IF loaded <= total THEN <<OnComplete(cache)>> ELSE <<>>)

\* completion reported before the progress
reportProgressSwapped(loaded, total, cache) ==
    (IF loaded = total THEN <<OnComplete(cache)>> ELSE <<>>)
        \o <<OnProgress(Percent(loaded, total))>>

\* the common tail of handleImageLoad and handleImageError: report the
\* progress, then completion when the counter has reached the total
reportProgress(loaded, total, cache) ==
    <<OnProgress(Percent(loaded, total))>>
        \o (IF loaded = total THEN <<OnComplete(cache)>> ELSE <<>>)

Count(cs, cb) == Cardinality({i \in 1..Len(cs) : cs[i].cb = cb})

\* the bookkeeping of the callbacks an operation has invoked
Invoked(cs) ==
    /\ calls' = cs
    /\ completeCount' = completeCount + Count(cs, "onComplete")
    /\ lastProgress' =
          LET ps == {i \in 1..Len(cs) : cs[i].cb = "onProgress"}
          IN  IF ps = {} THEN lastProgress
              ELSE cs[CHOOSE i \in ps : \A j \in ps : j <= i].args[1]

preloadAll ==
    /\ IF totalImages = 0
       THEN /\ Invoked(<<OnProgress(100), OnComplete(<<>>)>>)
            /\ UNCHANGED <<handles, imageElements>>
       ELSE /\ preloadEach(images, 0)
            /\ Invoked(<<>>)
    /\ preloadCalls' = preloadCalls + 1
    /\ ret' = NoRet
    /\ UNCHANGED <<images, loadedImages, totalImages, imageCache, addCalls>>

\* the load event of Image object h
handleImageLoad(h) ==
    /\ handles[h].state = "pending"
    /\ handles' = [handles EXCEPT ![h].state = "loaded"]
    /\ loadedImages' = loadedImages + 1
    /\ imageCache' = CachePut(imageCache, handles[h].src, ImageRef(h))
    /\ Invoked(reportProgress(loadedImages', totalImages, imageCache'))
    /\ ret' = NoRet
    /\ UNCHANGED <<images, totalImages, imageElements, preloadCalls, addCalls>>

\* an error handler that caches the failed image like a loaded one
handleImageErrorCaching(h) ==
    /\ handles[h].state = "pending"
    /\ handles' = [handles EXCEPT ![h].state = "failed"]
    /\ loadedImages' = loadedImages + 1
    /\ imageCache' = CachePut(imageCache, handles[h].src, ImageRef(h))
    /\ Invoked(<<OnError(handles[h].src, handles[h].index)>>
                  \o reportProgress(loadedImages', totalImages, imageCache'))
    /\ ret' = NoRet
    /\ UNCHANGED <<images, totalImages, imageElements, preloadCalls, addCalls>>

\* an error handler that does not count the failed image
handleImageErrorUncounted(h) ==
    /\ handles[h].state = "pending"
    /\ handles' = [handles EXCEPT ![h].state = "failed"]
    /\ loadedImages' = loadedImages
    /\ Invoked(<<OnError(handles[h].src, handles[h].index)>>
                  \o reportProgress(loadedImages', totalImages, imageCache))
    /\ ret' = NoRet
    /\ UNCHANGED <<images, totalImages, imageElements, imageCache,
                   preloadCalls, addCalls>>

\* the error event of Image object h
handleImageError(h) ==
    /\ handles[h].state = "pending"
    /\ handles' = [handles EXCEPT ![h].state = "failed"]
    /\ loadedImages' = loadedImages + 1
    /\ Invoked(<<OnError(handles[h].src, handles[h].index)>>
                  \o reportProgress(loadedImages', totalImages, imageCache))
    /\ ret' = NoRet
    /\ UNCHANGED <<images, totalImages, imageElements, imageCache,
                   preloadCalls, addCalls>>

getRandomImage ==
    /\ LET cachedUrls == ObjectKeys(imageCache)
       IN  IF Len(cachedUrls) = 0
           THEN ret' = [op |-> "getRandomImage", val |-> Null]
           ELSE \E randomIndex \in RandomIndex(Len(cachedUrls)) :
                   ret' = [op |-> "getRandomImage",
                           val |-> IF randomIndex + 1 \in DOMAIN cachedUrls
                                   THEN CacheGet(imageCache,
                                                 cachedUrls[randomIndex + 1])
                                   ELSE Undefined]
    /\ calls' = <<>>
    /\ UNCHANGED <<images, loadedImages, totalImages, imageElements,
                   imageCache, handles, completeCount, lastProgress,
                   preloadCalls, addCalls>>

getRandomImageURL ==
    /\ LET cachedUrls == ObjectKeys(imageCache)
       IN  IF Len(cachedUrls) = 0
           THEN ret' = [op |-> "getRandomImageURL", val |-> Null]
           ELSE \E randomIndex \in RandomIndex(Len(cachedUrls)) :
                   ret' = [op |-> "getRandomImageURL",
                           val |-> IF randomIndex + 1 \in DOMAIN cachedUrls
                                   THEN String(cachedUrls[randomIndex + 1])
                                   ELSE Undefined]
    /\ calls' = <<>>
    /\ UNCHANGED <<images, loadedImages, totalImages, imageElements,
                   imageCache, handles, completeCount, lastProgress,
                   preloadCalls, addCalls>>

\* !!this.imageCache[src]: an Image object is truthy, undefined is not
isImageLoaded(src) == CacheGet(imageCache, src) # Undefined

getLoadingProgress ==
    IF totalImages = 0 THEN 100 ELSE Percent(loadedImages, totalImages)

addImages(imgs) ==
    LET startIndex == totalImages
    IN  /\ images' = images \o imgs
        /\ totalImages' = Len(images')
        /\ preloadEach(imgs, startIndex)
        /\ Invoked(<<>>)
        /\ addCalls' = addCalls + 1
        /\ ret' = NoRet
        /\ UNCHANGED <<loadedImages, imageCache, preloadCalls>>

\* ------------------------------------------------------------------------
\* Specifications
\* ------------------------------------------------------------------------
SeqsUpTo(S, n) == UNION {[1..k -> S] : k \in 0..n}

\* the state the constructor leaves for an images array
Constructed(imgs) ==
    /\ images = imgs
    /\ loadedImages = 0
    /\ totalImages = Len(imgs)
    /\ imageElements = <<>>
    /\ imageCache = <<>>
    /\ handles = <<>>
    /\ calls = <<>>
    /\ ret = NoRet
    /\ completeCount = 0
    /\ lastProgress = -1
    /\ preloadCalls = 0
    /\ addCalls = 0

Init == \E imgs \in SeqsUpTo(URLs, MaxInit) : Constructed(imgs)

Next ==
    \/ /\ preloadCalls < MaxPreloads
       /\ Len(handles) + totalImages <= MaxHandles
       /\ preloadAll
    \/ \E h \in DOMAIN handles : handleImageLoad(h)
    \/ \E h \in DOMAIN handles : handleImageError(h)
    \/ \E imgs \in SeqsUpTo(URLs, MaxAddLen) :
          /\ addCalls < MaxAdds
          /\ Len(handles) + Len(imgs) <= MaxHandles
          /\ addImages(imgs)
    \/ getRandomImage
    \/ getRandomImageURL

Spec == Init /\ [][Next]_vars

\* A page with LargeTotal images, all of which load, in the order in which
\* they were requested.
InitLarge == Constructed([i \in 1..LargeTotal |-> LargeURL])

NextLarge ==
    \/ preloadCalls = 0 /\ preloadAll
    \/ \E h \in DOMAIN handles :
          /\ \A g \in 1..(h - 1) : handles[g].state # "pending"
          /\ handleImageLoad(h)

SpecLarge == InitLarge /\ [][NextLarge]_vars

\* ------------------------------------------------------------------------
\* Properties
\* ------------------------------------------------------------------------
Pending == {h \in DOMAIN handles : handles[h].state = "pending"}
Loaded == {h \in DOMAIN handles : handles[h].state = "loaded"}
Failed == {h \in DOMAIN handles : handles[h].state = "failed"}
LoadedURLs == {handles[h].src : h \in Loaded}
KeySet(cache) == {cache[i].url : i \in 1..Len(cache)}
Callbacks(cs) == [i \in 1..Len(cs) |-> cs[i].cb]

\* the step handles the error event of Image object h
ErrorHandled(h) ==
    /\ handles[h].state = "pending"
    /\ h \in DOMAIN handles'
    /\ handles'[h].state = "failed"

TypeOK ==
    /\ loadedImages \in Nat
    /\ totalImages = Len(images)
    /\ loadedImages = Cardinality(Loaded \cup Failed)
    /\ \A i \in DOMAIN imageElements : imageElements[i] \in DOMAIN handles

\* C1: with one preloadAll and no addImages, onComplete has been invoked
\* exactly once when preloadAll has been called and all N events have been
\* handled (for N = 0: as soon as preloadAll has been called), and not at all
\* before that.
C1_CompleteExactlyOnce ==
    (addCalls = 0 /\ preloadCalls <= 1) =>
        completeCount =
            IF preloadCalls = 1 /\ Cardinality(Loaded \cup Failed) = Len(images)
            THEN 1 ELSE 0

C1_Witness ==
    /\ addCalls = 0
    /\ preloadCalls = 1
    /\ Len(images) = 2
    /\ Cardinality(Loaded \cup Failed) = 2
    /\ completeCount = 1
    /\ Callbacks(calls) = <<"onProgress", "onComplete">>

\* C2: with at most one preloadAll and any number of addImages calls,
\* loadedImages never exceeds totalImages, and getLoadingProgress() and every
\* value passed to onProgress lie in 0..100.
C2_ProgressInRange ==
    preloadCalls <= 1 =>
        /\ loadedImages <= totalImages
        /\ getLoadingProgress \in 0..100
        /\ \A i \in 1..Len(calls) :
              calls[i].cb = "onProgress" => calls[i].args[1] \in 0..100

C4_CompleteMeansAllDone ==
    \A i \in 1..Len(calls) :
        calls[i].cb = "onComplete" =>
            /\ Pending = {}
            /\ KeySet(calls[i].args[1]) = LoadedURLs

\* C5: whenever getLoadingProgress() returns 100, and whenever 100 is passed
\* to onProgress, loadedImages equals totalImages.
C5_HundredMeansAllLoaded ==
    (\/ getLoadingProgress = 100
     \/ \E i \in 1..Len(calls) : calls[i] = OnProgress(100))
        => loadedImages = totalImages

\* C6: getRandomImageURL() returns null exactly when no image has loaded,
\* and otherwise a key of imageCache whose image loaded; getRandomImage()
\* returns null or the Image object cached for such a key; neither changes
\* loadedImages, totalImages or imageCache.
C6_RandomFromCache ==
    /\ [](ret.op = "getRandomImageURL" =>
            /\ (ret.val = Null) <=> (Loaded = {})
            /\ ret.val # Null =>
                  \E u \in KeySet(imageCache) \cap LoadedURLs :
                      ret.val = String(u))
    /\ [](ret.op = "getRandomImage" =>
            /\ (ret.val = Null) <=> (Loaded = {})
            /\ ret.val # Null =>
                  \E u \in KeySet(imageCache) \cap LoadedURLs :
                      /\ ret.val = CacheGet(imageCache, u)
                      /\ \E h \in Loaded :
                            ret.val = ImageRef(h) /\ handles[h].src = u)
    /\ [][ret'.op \in {"getRandomImage", "getRandomImageURL"} =>
            UNCHANGED <<loadedImages, totalImages, imageCache>>]_vars

C6_Witness ==
    /\ ret.op = "getRandomImageURL"
    /\ \E u \in KeySet(imageCache) :
          /\ ret.val = String(u)
          /\ \E g \in Failed : handles[g].src # u

\* C7: handling an error event adds exactly one to loadedImages, invokes
\* onError exactly once, with the URL and index of the image, and creates no
\* Image object; when, after one preloadAll and no addImages, the last of
\* N >= 1 images has failed like all the others, onComplete is invoked with
\* an empty cache.
C7_ErrorCountsOnce ==
    [][\A h \in DOMAIN handles :
          ErrorHandled(h) =>
              /\ loadedImages' = loadedImages + 1
              /\ Count(calls', "onError") = 1
              /\ calls'[1] = OnError(handles[h].src, handles[h].index)
              /\ images[handles[h].index + 1] = handles[h].src
              /\ Len(handles') = Len(handles)
              /\ (/\ addCalls = 0
                  /\ preloadCalls = 1
                  /\ Len(images) >= 1
                  /\ \A g \in DOMAIN handles' : handles'[g].state = "failed")
                     => /\ completeCount' = 1
                        /\ calls'[Len(calls')] = OnComplete(<<>>)]_vars

C7_Witness ==
    /\ addCalls = 0
    /\ preloadCalls = 1
    /\ Len(images) = 2
    /\ Cardinality(Failed) = 2
    /\ Loaded = {}
    /\ completeCount = 1
    /\ Len(calls) = 3
    /\ calls[3] = OnComplete(<<>>)

\* C8: every onComplete is immediately preceded, in the same operation, by
\* onProgress(100); handling an error event invokes onError, then onProgress,
\* then onComplete if and only if the counter has reached the total.
C8_CallbackOrder ==
    /\ [](\A i \in 1..Len(calls) :
            calls[i].cb = "onComplete" =>
                i > 1 /\ calls[i - 1] = OnProgress(100))
    /\ [][\A h \in DOMAIN handles :
            ErrorHandled(h) =>
                Callbacks(calls') =
                    IF loadedImages' = totalImages'
                    THEN <<"onError", "onProgress", "onComplete">>
                    ELSE <<"onError", "onProgress">>]_vars

C8_Witness ==
    /\ Callbacks(calls) = <<"onError", "onProgress", "onComplete">>
    /\ calls[2] = OnProgress(100)
    /\ Loaded # {}

\* C9: with one preloadAll and any number of addImages calls, onComplete is
\* invoked at most once.
C9_CompleteAtMostOnce == preloadCalls <= 1 => completeCount <= 1

\* C10: the values passed to onProgress never decrease, and neither does the
\* value of getLoadingProgress().
C10_ProgressMonotone ==
    [][/\ Count(calls', "onProgress") > 0 => lastProgress' >= lastProgress
       /\ getLoadingProgress' >= getLoadingProgress]_vars

====
